---- MODULE Spec2Model ----
(***************************************************************************)
(* Model of app.py: the LINE webhook that turns a question into SQL,       *)
(* validates it, runs it through the Power Automate runner and pushes the  *)
(* summarised answer back.                                                 *)
(*                                                                         *)
(* Strings are modelled as sequences of lexemes.  A lexeme is a maximal    *)
(* piece of text whose first and last characters are classified as word    *)
(* characters (\w), whitespace (\s) or other punctuation; the regular      *)
(* expressions of the source are evaluated over these sequences.  No       *)
(* keyword of the source can be formed by joining two lexemes used here.   *)
(***************************************************************************)
EXTENDS Integers, Sequences, FiniteSets, TLC

\* ------------------------------------------------------------------------
\* Bounds
\* ------------------------------------------------------------------------
MaxSegs == 3

NumReq == 2

MaxTicks == 2

MaxDedupTicks == 3

\* ------------------------------------------------------------------------
\* Lexemes and character classes
\* ------------------------------------------------------------------------
BannedWords == {"insert", "update", "delete", "drop", "alter", "create", "truncate", "merge"}

ALLOWED_FROM == {"dbo.cqcr310"}

\* str.lower() on one lexeme
Lower(x) ==
    CASE x = "SELECT" -> "select"
      [] x = "Select" -> "select"
      [] x = "FROM" -> "from"
      [] x = "DROP" -> "drop"
      [] x = "Merge" -> "merge"
      [] x = "DBO.CQCR310" -> "dbo.cqcr310"
      [] x = "Plant" -> "plant"
      [] x = "[Plant]" -> "[plant]"
      [] x = "IN" -> "in"
      [] x = "WHERE" -> "where"
      [] x = "GROUP" -> "group"
      [] x = "BY" -> "by"
      [] OTHER -> x

IsSpace(x) == x \in {" ", "\n"}

\* lexemes made of, or starting and ending with, \w characters
IsWordLex(x) == x \notin {" ", "\n", ";", "*", "=", ",", "(", ")", "'", "\"", "[Plant]"}

\* \b before position i of s: the characters on both sides differ in \w-ness
WordStartAt(s, i) == IsWordLex(s[i]) /\ (i = 1 \/ ~IsWordLex(s[i - 1]))

WordEndAt(s, i) == IsWordLex(s[i]) /\ (i = Len(s) \/ ~IsWordLex(s[i + 1]))

\* ------------------------------------------------------------------------
\* str.strip() and str.strip(";")
\* ------------------------------------------------------------------------
RECURSIVE LStrip(_, _)
LStrip(s, cs) == IF s # <<>> /\ Head(s) \in cs THEN LStrip(Tail(s), cs) ELSE s

RECURSIVE RStrip(_, _)
RStrip(s, cs) ==
    IF s # <<>> /\ s[Len(s)] \in cs THEN RStrip(SubSeq(s, 1, Len(s) - 1), cs) ELSE s

Strip(s, cs) == RStrip(LStrip(s, cs), cs)

\* ------------------------------------------------------------------------
\* validate_sql
\* ------------------------------------------------------------------------
\* s.lower().startswith("select")
StartsWithSelect(s) == s # <<>> /\ Lower(s[1]) = "select"

\* the search without re.IGNORECASE
BANNED_SQL_CaseSensitive(s) ==
    \E i \in 1..Len(s) :
        s[i] \in BannedWords /\ WordStartAt(s, i) /\ WordEndAt(s, i)

\* BANNED_SQL.search(s)
BANNED_SQL(s) ==
    \E i \in 1..Len(s) :
        Lower(s[i]) \in BannedWords /\ WordStartAt(s, i) /\ WordEndAt(s, i)

\* index just after the run of whitespace that starts at i
RECURSIVE SkipSpaces(_, _)
SkipSpaces(s, i) == IF i <= Len(s) /\ IsSpace(s[i]) THEN SkipSpaces(s, i + 1) ELSE i

\* re.search(rf"\bfrom\s+{re.escape(t)}\b", s, re.IGNORECASE)
FromMatches(s, t) ==
    \E i \in 1..Len(s) :
        /\ Lower(s[i]) = "from"
        /\ WordStartAt(s, i)
        /\ i + 1 <= Len(s) /\ IsSpace(s[i + 1])
        /\ LET j == SkipSpaces(s, i + 1)
           IN  j <= Len(s) /\ Lower(s[j]) = t /\ WordEndAt(s, j)

Raise(e) == [ok |-> FALSE, err |-> e, val |-> <<>>]

Returned(v) == [ok |-> TRUE, err |-> "none", val |-> v]

validate_sql(sql) ==
    LET s == Strip(Strip(sql, {" "}), {";"})
    IN  IF ~StartsWithSelect(s) THEN Raise("only_select")
        ELSE IF BANNED_SQL(s) THEN Raise("banned_keyword")
        ELSE IF ~(\E t \in ALLOWED_FROM : FromMatches(s, t)) THEN Raise("from_not_allowed")
        ELSE Returned(s)

\* ------------------------------------------------------------------------
\* Candidate queries handed to validate_sql
\* ------------------------------------------------------------------------
Segments ==
    {<<"select">>, <<"Select">>, <<" ">>, <<";">>, <<"x">>,
     <<" ", "from", " ", "dbo.cqcr310">>,
     <<" ", "FROM", " ", " ", "DBO.CQCR310", " ">>,
     <<" ", "from", " ", "dbo.users">>,
     <<"from", " ", "dbo.cqcr310">>}
    \cup {<<w>> : w \in BannedWords} \cup {<<"DROP">>, <<"Merge">>}

RECURSIVE Flatten(_)
Flatten(ss) == IF ss = <<>> THEN <<>> ELSE Head(ss) \o Flatten(Tail(ss))

SegSeqs == UNION {[1..n -> Segments] : n \in 0..MaxSegs}

Queries == {Flatten(ss) : ss \in SegSeqs}

\* ------------------------------------------------------------------------
\* strip_code_fence and the post-processing of generate_sql
\* ------------------------------------------------------------------------
\* "<fence>" stands for the three backquotes of a markdown code fence
FenceOpen == {"<fence>", "<fence>sql"}

strip_code_fence(raw) ==
    LET a == Strip(raw, {" "})
        b == IF a # <<>> /\ Head(a) \in FenceOpen THEN LStrip(Tail(a), {" "}) ELSE a
        c == IF b # <<>> /\ b[Len(b)] = "<fence>"
             THEN RStrip(SubSeq(b, 1, Len(b) - 1), {" "}) ELSE b
    IN  Strip(c, {" "})

\* generate_sql applied to the text the reasoning service returned
generate_sql_post(content) ==
    Strip(Strip(strip_code_fence(Strip(content, {" "})), {" "}), {";"})

\* texts the reasoning service may return for the SQL prompt
GenTexts ==
    {<<"<fence>sql", " ", "select", " ", "from", " ", "dbo.cqcr310", ";", " ", "<fence>">>,
     <<"DROP", " ", "x", " ", "dbo.cqcr310">>,
     <<"select", " ", "from", " ", "dbo.cqcr310", ";", " ", "DROP", " ", "x">>,
     <<";", " ", "select", " ", "from", " ", "dbo.cqcr310", " ", ";">>,
     <<"select", " ", "from", " ", "dbo.users">>}

\* ------------------------------------------------------------------------
\* Dedup (PROCESSED, DEDUP_TTL_SECONDS, _cleanup_processed, is_duplicate)
\* ------------------------------------------------------------------------
DEDUP_TTL_SECONDS == 15 * 60

\* between two steps of the webhook the clock advances by whole time-to-live
\* periods: an entry is then as old as it can be and still count (age = TTL)
\* or expired (age = 2 * TTL)
TickSteps == {DEDUP_TTL_SECONDS}

\* a purge that also drops the entries whose age is exactly the time-to-live
_cleanup_processed_Inclusive(P, t) ==
    [k \in {x \in DOMAIN P : ~(t - P[x] >= DEDUP_TTL_SECONDS)} |-> P[k]]

_cleanup_processed(P, t) ==
    [k \in {x \in DOMAIN P : ~(t - P[x] > DEDUP_TTL_SECONDS)} |-> P[k]]

\* is_duplicate without line 420: a miss is not recorded
is_duplicate_NoRecord(P, event_key, t) ==
    LET Q == _cleanup_processed(P, t)
    IN  [P |-> Q, ret |-> event_key \in DOMAIN Q]

\* is_duplicate that renews the timestamp on a hit
is_duplicate_Refresh(P, event_key, t) ==
    LET Q == _cleanup_processed(P, t)
    IN  [P |-> [k \in DOMAIN Q \cup {event_key} |-> IF k = event_key THEN t ELSE Q[k]],
         ret |-> event_key \in DOMAIN Q]

is_duplicate(P, event_key, t) ==
    LET Q == _cleanup_processed(P, t)
    IN  IF event_key \in DOMAIN Q
        THEN [P |-> Q, ret |-> TRUE]
        ELSE [P |-> [k \in DOMAIN Q \cup {event_key} |-> IF k = event_key THEN t ELSE Q[k]],
              ret |-> FALSE]

\* ------------------------------------------------------------------------
\* Question texts
\* ------------------------------------------------------------------------
\* A question text is a sequence of characters.  A character outside ASCII
\* is written as its code point: <<"U+4E0D", "U+826F">> is the
\* two-character word for "defective".
MaxWords == 3

\* str.lower() on one character
LowerChar(c) ==
    CASE c = "N" -> "n"
      [] c = "G" -> "g"
      [] c = "O" -> "o"
      [] c = "K" -> "k"
      [] c = "V" -> "v"
      [] c = "S" -> "s"
      [] OTHER -> c

LowerStr(t) == [i \in 1..Len(t) |-> LowerChar(t[i])]

\* a in t, for strings a and t
IsInfix(a, t) == \E i \in 0..(Len(t) - Len(a)) : SubSeq(t, i + 1, i + Len(a)) = a

TextsOver(frags, n) == {Flatten(ws) : ws \in UNION {[1..k -> frags] : k \in 0..n}}

\* ------------------------------------------------------------------------
\* Defect normalization (DEFECT_ALIAS, DEFECT_GROUP_ALIAS,
\* normalize_defect_from_text)
\* ------------------------------------------------------------------------
YanTui == <<"U+9A57", "U+9000">>

PanTui == <<"U+5224", "U+9000">>

TeCai == <<"U+7279", "U+63A1">>

YunShou == <<"U+5141", "U+6536">>

BuLiang == <<"U+4E0D", "U+826F">>

BuLiangPi == <<"U+4E0D", "U+826F", "U+6279">>

\* the (canonical name, alias) pairs of the dict
DEFECT_ALIAS ==
    {<<YanTui, YanTui>>, <<YanTui, PanTui>>,
     <<TeCai, TeCai>>,
     <<YunShou, YunShou>>, <<YunShou, <<"o", "k">>>>,
     <<YunShou, <<"a", "c", "c", "e", "p", "t">>>>}

DEFECT_GROUP_ALIAS == {BuLiang, <<"n", "g">>, BuLiangPi}

\* the reverse map, as its (alias, canonical name) items
DEFECT_ALIAS_TO_CN == {<<LowerStr(Strip(p[2], {" "})), p[1]>> : p \in DEFECT_ALIAS}

\* the result of normalize_defect_from_text: None, or a list, of which only
\* the set of members is modelled (list(found_defects) has no fixed order)
DefectNone == [none |-> TRUE, vals |-> {}]

DefectList(S) == [none |-> FALSE, vals |-> S]

\* the individual aliases found in t
found_defects(t) == {p[2] : p \in {x \in DEFECT_ALIAS_TO_CN : x[1] # <<>> /\ IsInfix(x[1], t)}}

\* a normalizer that looks for the individual aliases first
normalize_defect_from_text_IndividualFirst(text) ==
    IF text = <<>> THEN DefectNone
    ELSE LET t == LowerStr(Strip(text, {" "}))
         IN  IF found_defects(t) # {} THEN DefectList(found_defects(t))
             ELSE IF \E g \in DEFECT_GROUP_ALIAS : IsInfix(g, t)
             THEN DefectList({YanTui, TeCai})
             ELSE DefectNone

normalize_defect_from_text(text) ==
    IF text = <<>> THEN DefectNone
    ELSE LET t == LowerStr(Strip(text, {" "}))
         IN  IF \E g \in DEFECT_GROUP_ALIAS : IsInfix(g, t)
             THEN DefectList({YanTui, TeCai})
             ELSE IF found_defects(t) # {} THEN DefectList(found_defects(t))
             ELSE DefectNone

\* pieces of question text
DefectFrags ==
    {<<"N">>, <<"g">>, BuLiang, <<"U+6279">>, YanTui, PanTui, TeCai, YunShou,
     <<"O", "K">>, <<"a", "c", "c", "e", "p", "t">>, <<" ">>, <<"x">>}

DefectTexts == TextsOver(DefectFrags, MaxWords)

\* ------------------------------------------------------------------------
\* Plant normalization (PLANT_ALIAS, ALIAS_TO_CN, normalize_plant_from_text,
\* normalize_plant_value, enforce_plant_in_sql)
\* ------------------------------------------------------------------------
MaxClauses == 2

YueNan == <<"U+8D8A", "U+5357">>

KunShan == <<"U+6606", "U+5C71">>

ZengDa == <<"U+589E", "U+9054">>

PLANT_ALIAS == {YueNan, KunShan, ZengDa}

\* the items of ALIAS_TO_CN in insertion order: (lowered alias, canonical name)
ALIAS_TO_CN ==
    <<<<YueNan, YueNan>>,
      <<<<"v", "i", "e", "t", "n", "a", "m">>, YueNan>>,
      <<<<"v", "n">>, YueNan>>,
      <<<<"U+8D8A", "U+5EE0">>, YueNan>>,
      <<<<"U+8D8A", "U+5357", "U+5EE0">>, YueNan>>,
      <<KunShan, KunShan>>,
      <<<<"k", "s">>, KunShan>>,
      <<<<"a", "k">>, KunShan>>,
      <<<<"U+6606", "U+5C71", "U+5EE0">>, KunShan>>,
      <<ZengDa, ZengDa>>,
      <<<<"z", "d">>, ZengDa>>,
      <<<<"U+589E", "U+9054", "U+5EE0">>, ZengDa>>>>

\* a plant name or None
PlantNone == [none |-> TRUE, cn |-> <<>>]

PlantCn(c) == [none |-> FALSE, cn |-> c]

\* truth value of a str | None
Truthy(p) == ~p.none /\ p.cn # <<>>

WS == {" ", "\n"}

normalize_plant_from_text(text) ==
    IF text = <<>> THEN PlantNone
    ELSE LET t == LowerStr(Strip(text, WS))
             hit == {i \in 1..Len(ALIAS_TO_CN) :
                        ALIAS_TO_CN[i][1] # <<>> /\ IsInfix(ALIAS_TO_CN[i][1], t)}
         IN  IF hit = {} THEN PlantNone
             ELSE PlantCn(ALIAS_TO_CN[CHOOSE i \in hit : \A j \in hit : i <= j][2])

\* lines 67-68 (the replace calls) change only keys with a double space or
\* with "viet-nam"; no literal used here has either
normalize_plant_value(raw) ==
    LET v == Strip(Strip(Strip(Strip(raw, WS), {"\""}), {"'"}), WS)
        key == LowerStr(v)
        hit == {i \in 1..Len(ALIAS_TO_CN) : ALIAS_TO_CN[i][1] = key}
    IN  IF v = <<>> THEN PlantNone
        ELSE IF v \in PLANT_ALIAS THEN PlantCn(v)
        ELSE IF hit # {} THEN PlantCn(ALIAS_TO_CN[CHOOSE i \in hit : TRUE][2])
        ELSE PlantNone

\* plant_cn or normalize_plant_value(val) or val
CnFor(plant_cn, val) ==
    IF Truthy(plant_cn) THEN plant_cn.cn
    ELSE IF Truthy(normalize_plant_value(val)) THEN normalize_plant_value(val).cn
    ELSE val

Quotes == {"'", "\""}

\* (\bPlant\b|\[Plant\]) at position i; the backquoted spelling is left out
IsPlantCol(s, i) ==
    \/ Lower(s[i]) = "plant" /\ WordStartAt(s, i) /\ WordEndAt(s, i)
    \/ Lower(s[i]) = "[plant]"

\* least index >= i of a lexeme of cs, 0 if there is none
RECURSIVE IndexOf(_, _, _)
IndexOf(s, i, cs) == IF i > Len(s) THEN 0 ELSE IF s[i] \in cs THEN i ELSE IndexOf(s, i + 1, cs)

NoMatch == [ok |-> FALSE, end |-> 0, grp |-> <<>>]

\* eq_pattern matched at position i: the end of the match and group 3
EqMatch(s, i) ==
    IF ~IsPlantCol(s, i) THEN NoMatch
    ELSE LET j == SkipSpaces(s, i + 1)
         IN  IF j > Len(s) \/ s[j] # "=" THEN NoMatch
             ELSE LET k == SkipSpaces(s, j + 1)
                  IN  IF k > Len(s) \/ s[k] \notin Quotes THEN NoMatch
                      ELSE LET e == IndexOf(s, k + 1, Quotes)
                           IN  IF e > k + 1 /\ s[e] = s[k]
                               THEN [ok |-> TRUE, end |-> e, grp |-> SubSeq(s, k + 1, e - 1)]
                               ELSE NoMatch

\* N'{cn}'
NLiteral(cn) == <<"N", "'">> \o cn \o <<"'">>

\* lines 91-97
repl_eq(left, val, plant_cn) == <<left, " ", "=", " ">> \o NLiteral(CnFor(plant_cn, val))

\* eq_pattern.sub(repl_eq, sql), from position i on
RECURSIVE SubEq(_, _, _)
SubEq(s, i, plant_cn) ==
    IF i > Len(s) THEN <<>>
    ELSE LET m == EqMatch(s, i)
         IN  IF m.ok THEN repl_eq(s[i], m.grp, plant_cn) \o SubEq(s, m.end + 1, plant_cn)
             ELSE <<s[i]>> \o SubEq(s, i + 1, plant_cn)

\* in_pattern matched at position i: the end of the match and group 2
InMatch(s, i) ==
    IF ~IsPlantCol(s, i) \/ i + 1 > Len(s) \/ ~IsSpace(s[i + 1]) THEN NoMatch
    ELSE LET j == SkipSpaces(s, i + 1)
         IN  IF j > Len(s) \/ Lower(s[j]) # "in" THEN NoMatch
             ELSE LET k == SkipSpaces(s, j + 1)
                  IN  IF k > Len(s) \/ s[k] # "(" THEN NoMatch
                      ELSE LET e == IndexOf(s, k + 1, {")"})
                           IN  IF e > k + 1
                               THEN [ok |-> TRUE, end |-> e, grp |-> SubSeq(s, k + 1, e - 1)]
                               ELSE NoMatch

\* inside.split(",")
RECURSIVE Split(_)
Split(s) ==
    LET c == IndexOf(s, 1, {","})
    IN  IF c = 0 THEN <<s>>
        ELSE <<SubSeq(s, 1, c - 1)>> \o Split(SubSeq(s, c + 1, Len(s)))

\* ", ".join(new_vals)
RECURSIVE Join(_)
Join(vs) ==
    IF vs = <<>> THEN <<>>
    ELSE IF Len(vs) = 1 THEN vs[1]
    ELSE vs[1] \o <<",", " ">> \o Join(Tail(vs))

\* lines 103-113
repl_in(left, inside, plant_cn) ==
    LET parts == Split(inside)
        pv(p) == Strip(Strip(Strip(Strip(p, WS), {"'"}), {"\""}), WS)
        new_vals == [n \in 1..Len(parts) |-> NLiteral(CnFor(plant_cn, pv(parts[n])))]
    IN  <<left, " ", "IN", " ", "(">> \o Join(new_vals) \o <<")">>

\* in_pattern.sub(repl_in, sql), from position i on
RECURSIVE SubIn(_, _, _)
SubIn(s, i, plant_cn) ==
    IF i > Len(s) THEN <<>>
    ELSE LET m == InMatch(s, i)
         IN  IF m.ok THEN repl_in(s[i], m.grp, plant_cn) \o SubIn(s, m.end + 1, plant_cn)
             ELSE <<s[i]>> \o SubIn(s, i + 1, plant_cn)

\* line 120; of the words that begin with IN only IN itself occurs here
has_plant_filter(s) ==
    \E i \in 1..Len(s) :
        /\ IsPlantCol(s, i)
        /\ LET j == SkipSpaces(s, i + 1)
           IN  j <= Len(s) /\ (s[j] = "=" \/ Lower(s[j]) = "in")

\* re.search(r"\bWHERE\b", sql, re.IGNORECASE)
HasWhere(s) ==
    \E i \in 1..Len(s) : Lower(s[i]) = "where" /\ WordStartAt(s, i) /\ WordEndAt(s, i)

\* \b(GROUP\s+BY|ORDER\s+BY)\b matches at position i
GroupOrOrderAt(s, i) ==
    /\ Lower(s[i]) \in {"group", "order"}
    /\ WordStartAt(s, i)
    /\ i + 1 <= Len(s) /\ IsSpace(s[i + 1])
    /\ LET j == SkipSpaces(s, i + 1)
       IN  j <= Len(s) /\ Lower(s[j]) = "by" /\ WordEndAt(s, j)

\* lines 123-133 for the keyword kw (AND or WHERE)
Inject(s, original, kw, cn) ==
    LET inject == <<" ", "Plant", " ", "=", " ">> \o NLiteral(cn) \o <<" ">>
        at == {i \in 1..Len(s) : GroupOrOrderAt(s, i)}
        first == CHOOSE i \in at : \A j \in at : i <= j
        subbed == IF at = {} THEN s
                  ELSE SubSeq(s, 1, first - 1) \o <<kw>> \o inject \o <<"\n">>
                           \o SubSeq(s, first, Len(s))
    IN  IF subbed = original
        THEN RStrip(RStrip(subbed, WS), {";"}) \o <<"\n", kw>> \o inject \o <<";">>
        ELSE subbed

enforce_plant_in_sql(sql, plant_cn) ==
    IF sql = <<>> THEN sql
    ELSE LET s1 == SubEq(sql, 1, plant_cn)
             s2 == SubIn(s1, 1, plant_cn)
         IN  IF Truthy(plant_cn) /\ ~has_plant_filter(s2)
             THEN Inject(s2, sql, IF HasWhere(s2) THEN "AND" ELSE "WHERE", plant_cn.cn)
             ELSE s2

\* candidate queries: a SELECT on the allow-listed table and some clauses
PlantBase == <<"select", " ", "x", " ", "from", " ", "dbo.cqcr310">>

PlantClauses ==
    {<<" ", "WHERE", " ", "Plant", " ", "=", " ", "'", "V", "N", "'">>,
     <<" ", "where", " ", "plant", "=", "\"", "K", "S", "\"">>,
     <<" ", "WHERE", " ", "Plant", " ", "=", " ", "N", "'">> \o KunShan \o <<"'">>,
     <<" ", "WHERE", " ", "Plant", " ", "IN", " ", "(", "'", "V", "N", "'", ",", "'", "X", "'", ")">>,
     <<" ", "AND", " ", "[Plant]", " ", "=", " ", "'", "X", "'">>,
     <<" ", "WHERE", " ", "x", " ", "=", " ", "'", "X", "'">>,
     <<" ", "GROUP", " ", "BY", " ", "x">>,
     <<" ", "order", " ", " ", "by", " ", "x">>,
     <<";">>,
     <<" ">>}

PlantQueries ==
    {<<>>} \cup {PlantBase \o Flatten(cs) :
                    cs \in UNION {[1..n -> PlantClauses] : n \in 0..MaxClauses}}

PlantTexts ==
    {<<>>,
     <<"x">>,
     YueNan,
     <<"K", "S">>,
     <<"t", "h", "a", "n", "k", "s">>,
     KunShan \o <<" ", "V", "N">>,
     <<" ", "z", "d", " ">>,
     <<"U+589E", "U+9054", "U+5EE0">>}

\* ------------------------------------------------------------------------
\* Local summary (summarize_locally)
\* ------------------------------------------------------------------------
MaxRows == 2

\* rows[:10]
TopN == 10

\* the value of a column of a row: dict.get gives None for a missing key;
\* a rate is a number, counted in units of 0.0001
PyNone == [present |-> FALSE, num |-> 0]

Num(n) == [present |-> TRUE, num |-> n]

\* truth value of a number or None
TruthyVal(v) == v.present /\ v.num # 0

\* a or b or c
Or3(a, b, c) == IF TruthyVal(a) THEN a ELSE IF TruthyVal(b) THEN b ELSE c

\* a get_float that turns a failed conversion into 0.0
get_float_ZeroOnError(x) == IF x.present THEN x ELSE Num(0)

\* lines 372-376: float(None) raises, which gives None
get_float(x) == IF x.present THEN x ELSE PyNone

\* f"{rate*100:.2f}%": the whole and the two decimal digits of the percentage
NoPct == [shown |-> FALSE, whole |-> 0, frac |-> 0]

Pct(n) == [shown |-> TRUE, whole |-> n \div 100, frac |-> n % 100]

PctOf(v) == IF v.present THEN Pct(v.num) ELSE NoPct

\* one line of the answer
SummaryLine(kind, i, pct) == [kind |-> kind, i |-> i, pct |-> pct]

\* line 370
NoDataMessage == <<SummaryLine("no_data", 0, NoPct)>>

RowRate(r) == get_float(Or3(r.ng_rate, r.NG_Rate, r.ngRate))

\* the answer as its sequence of lines; the lines of 10 rows are far shorter
\* than the 4500 characters of line 402
summarize_locally(rows) ==
    IF rows = <<>> THEN NoDataMessage
    ELSE LET top == SubSeq(rows, 1, IF Len(rows) < TopN THEN Len(rows) ELSE TopN)
             first == top[1]
             ng_rate == RowRate(first)
         IN  <<SummaryLine(IF ng_rate.present THEN "top_rate" ELSE "top_row", 0, PctOf(ng_rate)),
               SummaryLine("header", 0, NoPct)>>
             \o [i \in 1..Len(top) |-> SummaryLine("item", i, PctOf(RowRate(top[i])))]

RateValues == {PyNone, Num(0), Num(250)}

SummaryRows == [ng_rate : RateValues, NG_Rate : RateValues, ngRate : RateValues]

PadRow == [ng_rate |-> PyNone, NG_Rate |-> Num(250), ngRate |-> PyNone]

\* up to MaxRows arbitrary rows, alone or followed by TopN more rows
SummaryInputs ==
    {rs \o [i \in 1..pad |-> PadRow] :
        rs \in UNION {[1..n -> SummaryRows] : n \in 0..MaxRows}, pad \in {0, TopN}}

\* ------------------------------------------------------------------------
\* Inbound events and the replies of the external services
\* ------------------------------------------------------------------------
Req == 1..NumReq

Ev(t, u, x, m, s) == [replyToken |-> t, userId |-> u, text |-> x, msgId |-> m, ts |-> s]

NoEvt == Ev("", "", "", "", "")

Events ==
    {Ev("tA", "u1", "q", "m1", "1"),
     Ev("tB", "", "q", "m1", "2"),
     Ev("tA", "u1", "q", "", "1"),
     Ev("", "u1", "q", "m1", "1"),
     Ev("tA", "u1", "", "m1", "1")}

\* body["events"]: the handler looks at events[0] only
Bodies == {<<>>} \cup {<<e>> : e \in Events}

\* the key without the message id
dedup_key_TokenTs(e) == e.replyToken \o ":" \o e.ts

\* dedup_key of line 462
dedup_key(e) == IF e.msgId # "" THEN e.msgId ELSE e.replyToken \o ":" \o e.ts

Configs ==
    {[line |-> TRUE, openai |-> TRUE, pa |-> TRUE],
     [line |-> FALSE, openai |-> TRUE, pa |-> TRUE],
     [line |-> TRUE, openai |-> FALSE, pa |-> TRUE],
     [line |-> TRUE, openai |-> TRUE, pa |-> FALSE]}

\* requests.post either raises (network error) or yields a response
NetErr == [status |-> 0, body |-> "neterr"]

IsNetErr(resp) == resp.status = 0

OaiStatuses == {200, 400, 429, 500}

OaiResponses == {[status |-> c, body |-> IF c = 200 THEN "content" ELSE "error text"] : c \in OaiStatuses}
                    \cup {[status |-> 200, body |-> "no choices"], NetErr}

PaResponses ==
    {[status |-> 200, body |-> b] : b \in {"rows3", "rows0", "norows", "notjson"}}
        \cup {[status |-> c, body |-> "error text"] : c \in {429, 500}}
        \cup {NetErr}

LineOutcomes == {"ok", "neterr"}

\* no response of the execution service has been received
NoResp == [status |-> -1, body |-> "none"]

NoExc == [type |-> "none", msg |-> <<>>]

Exc(t, m) == [type |-> t, msg |-> m]

\* "rate limited" in msg.lower() or "429" in msg   (line 489)
IsRateLimitedMsg(msg) ==
    \E i \in 1..Len(msg) :
        msg[i] \in {"OpenAI rate limited (429). Please try again later.", "429"}

\* ------------------------------------------------------------------------
\* State
\* ------------------------------------------------------------------------
VARIABLES
    vsql, vout,          \* argument and outcome of a validate_sql call
    PROCESSED,           \* dedup map: key -> timestamp
    now, ticks,          \* time.time() and the number of clock advances
    loop,                \* the request the event loop is running, 0 if none
    cfg,                 \* which environment variables are set
    frame,               \* the local variables of each line_webhook call
    obs,                 \* what each line_webhook call has done so far
    firstObs,            \* key -> time it was judged first-seen, -1 if not within the TTL
    dcall,               \* the last direct call of is_duplicate and its result
    hits,                \* key -> duplicate verdicts since it was judged first-seen
    plText, plSql,       \* question text and candidate query given to the plant normalizer
    plOut,               \* the results of enforce_plant_in_sql, applied once and twice
    defText, defOut,     \* argument and result of a normalize_defect_from_text call
    sumRows, sumOut      \* argument and result of a summarize_locally call

vvars == <<vsql, vout>>

dvars == <<dcall, hits>>

nvars == <<plText, plSql, plOut>>

fvars == <<defText, defOut>>

svars == <<sumRows, sumOut>>

xvars == <<nvars, fvars, svars>>

pvars == <<vvars, dvars, xvars>>

wvars == <<PROCESSED, now, ticks, loop, cfg, frame, obs, firstObs>>

vars == <<vsql, vout, PROCESSED, now, ticks, loop, cfg, frame, obs, firstObs, dcall, hits,
          plText, plSql, plOut, defText, defOut, sumRows, sumOut>>

NotCalled == [ok |-> FALSE, err |-> "not_called", val |-> <<>>]

\* the key of an event as the observer of the dedup verdicts sees it
EventKey(e) == IF e.msgId = "" THEN e.replyToken \o ":" \o e.ts ELSE e.msgId

Keys == {EventKey(e) : e \in Events}

Frame0 ==
    [pc |-> "absent", evt |-> NoEvt, key |-> "", sql |-> <<>>, attempt |-> 0,
     caller |-> "none", exc |-> NoExc, rows |-> "none", answer |-> "none"]

\* obs, firstObs, dcall and hits only record what the code did; no action
\* of the code reads them
Obs0 ==
    [reply |-> 0, gen |-> 0, exec |-> 0, sum |-> 0, push |-> <<>>, http |-> 0,
     last |-> 0, dup |-> "unknown", seenBefore |-> FALSE, inserted |-> FALSE,
     overlap |-> FALSE, stages |-> <<>>, vres |-> NotCalled, execArg |-> <<>>,
     oai |-> "none", paResp |-> NoResp, lost |-> FALSE]

WebIdle ==
    /\ PROCESSED = <<>>
    /\ now = 0 /\ ticks = 0
    /\ loop = 0
    /\ frame = [r \in Req |-> Frame0]
    /\ obs = [r \in Req |-> Obs0]
    /\ firstObs = [k \in Keys |-> -1]

ValidateIdle == vsql = <<>> /\ vout = NotCalled

NoCall == [n |-> 0, key |-> "", ret |-> FALSE, hitsBefore |-> 0]

DedupIdle == dcall = NoCall /\ hits = [k \in Keys |-> 0]

PlantIdle == plText = <<>> /\ plSql = <<>> /\ plOut = <<>>

DefectNotCalled == [none |-> TRUE, vals |-> {<<"not_called">>}]

DefectIdle == defText = <<>> /\ defOut = DefectNotCalled

SummaryNotCalled == <<SummaryLine("not_called", 0, NoPct)>>

SummaryIdle == sumRows = <<>> /\ sumOut = SummaryNotCalled

PureIdle == PlantIdle /\ DefectIdle /\ SummaryIdle

\* ------------------------------------------------------------------------
\* validate_sql on its own
\* ------------------------------------------------------------------------
AllSet == [line |-> TRUE, openai |-> TRUE, pa |-> TRUE]

InitValidate ==
    vsql \in Queries /\ vout = NotCalled /\ WebIdle /\ cfg = AllSet /\ DedupIdle /\ PureIdle

CallValidate ==
    /\ vout = NotCalled
    /\ vout' = validate_sql(vsql)
    /\ UNCHANGED <<vsql, wvars, dvars, xvars>>

NextValidate == CallValidate

SpecValidate == InitValidate /\ [][NextValidate]_vars

\* ------------------------------------------------------------------------
\* is_duplicate on its own, under a clock that never goes back
\* ------------------------------------------------------------------------
DedupTickSteps == {1, DEDUP_TTL_SECONDS}

InitDedup == WebIdle /\ cfg = AllSet /\ ValidateIdle /\ DedupIdle /\ PureIdle

DedupTick ==
    /\ ticks < MaxDedupTicks
    /\ \E d \in DedupTickSteps : now' = now + d
    /\ ticks' = ticks + 1
    /\ UNCHANGED <<vvars, dvars, xvars, PROCESSED, loop, cfg, frame, obs, firstObs>>

CallIsDuplicate(k) ==
    LET d == is_duplicate(PROCESSED, k, now)
    IN  /\ PROCESSED' = d.P
        /\ dcall' = [n |-> 1 - dcall.n, key |-> k, ret |-> d.ret, hitsBefore |-> hits[k]]
        /\ hits' = [hits EXCEPT ![k] = IF ~d.ret THEN 0 ELSE IF @ < 2 THEN @ + 1 ELSE @]
        /\ firstObs' = IF d.ret THEN firstObs ELSE [firstObs EXCEPT ![k] = now]
        /\ UNCHANGED <<vvars, xvars, now, ticks, loop, cfg, frame, obs>>

NextDedup == DedupTick \/ \E k \in Keys : CallIsDuplicate(k)

SpecDedup == InitDedup /\ [][NextDedup]_vars

\* ------------------------------------------------------------------------
\* enforce_plant_in_sql on its own: applied to a candidate query with the
\* plant of the question text, then to its own result
\* ------------------------------------------------------------------------
InitPlant ==
    /\ plText \in PlantTexts /\ plSql \in PlantQueries /\ plOut = <<>>
    /\ WebIdle /\ cfg = AllSet /\ ValidateIdle /\ DedupIdle /\ DefectIdle /\ SummaryIdle

CallEnforce ==
    /\ Len(plOut) < 2
    /\ LET arg == IF plOut = <<>> THEN plSql ELSE plOut[Len(plOut)]
       IN  plOut' = Append(plOut, enforce_plant_in_sql(arg, normalize_plant_from_text(plText)))
    /\ UNCHANGED <<plText, plSql, vvars, dvars, wvars, fvars, svars>>

NextPlant == CallEnforce

SpecPlant == InitPlant /\ [][NextPlant]_vars

\* ------------------------------------------------------------------------
\* normalize_defect_from_text on its own
\* ------------------------------------------------------------------------
InitDefect ==
    /\ defText \in DefectTexts /\ defOut = DefectNotCalled
    /\ WebIdle /\ cfg = AllSet /\ ValidateIdle /\ DedupIdle /\ PlantIdle /\ SummaryIdle

CallDefect ==
    /\ defOut = DefectNotCalled
    /\ defOut' = normalize_defect_from_text(defText)
    /\ UNCHANGED <<defText, vvars, dvars, wvars, nvars, svars>>

NextDefect == CallDefect

SpecDefect == InitDefect /\ [][NextDefect]_vars

\* ------------------------------------------------------------------------
\* summarize_locally on its own
\* ------------------------------------------------------------------------
InitSummary ==
    /\ sumRows \in SummaryInputs /\ sumOut = SummaryNotCalled
    /\ WebIdle /\ cfg = AllSet /\ ValidateIdle /\ DedupIdle /\ PlantIdle /\ DefectIdle

CallSummarize ==
    /\ sumOut = SummaryNotCalled
    /\ sumOut' = summarize_locally(sumRows)
    /\ UNCHANGED <<sumRows, vvars, dvars, wvars, nvars, fvars>>

NextSummary == CallSummarize

SpecSummary == InitSummary /\ [][NextSummary]_vars

\* ------------------------------------------------------------------------
\* line_webhook: one coroutine per inbound call, all on one event loop
\* ------------------------------------------------------------------------
MaxAttempts == 5

\* the places where line_webhook awaits (line 430); everything after it is
\* blocking code that keeps the event loop until the handler returns
AwaitPoints == {"await_body"}

Runs(r) == loop = r \/ (loop = 0 /\ frame[r].pc \in AwaitPoints)

\* a handler that goes on to the execution whatever validate_sql did
AfterValidate_Always(res) == "exec"

\* the try block of lines 472-487: where control goes after validate_sql
AfterValidate(res) == IF res.ok THEN "exec" ELSE "except"

\* a handler that goes from the dedup check straight to the generator
AfterDedup_SkipReply(dup) == IF dup THEN "ret" ELSE "gen"

\* lines 464-470: where control goes after is_duplicate
AfterDedup(dup) == IF dup THEN "ret" ELSE "reply"

\* the client posts a webhook call
Send(r) ==
    /\ frame[r].pc = "absent"
    /\ \A q \in 1..(r - 1) : frame[q].pc # "absent"
    /\ frame' = [frame EXCEPT ![r].pc = "pending"]
    /\ UNCHANGED <<pvars, PROCESSED, now, ticks, loop, cfg, obs, firstObs>>

\* the event loop starts the coroutine, which runs up to its await
Start(r) ==
    /\ frame[r].pc = "pending"
    /\ loop = 0
    /\ loop' = r
    /\ frame' = [frame EXCEPT ![r].pc = "await_body"]
    /\ UNCHANGED <<pvars, PROCESSED, now, ticks, cfg, obs, firstObs>>

\* await req.json() suspends the coroutine when the body is not there yet
Yield(r) ==
    /\ loop = r
    /\ frame[r].pc \in AwaitPoints
    /\ loop' = 0
    /\ UNCHANGED <<pvars, PROCESSED, now, ticks, cfg, frame, obs, firstObs>>

\* lines 430-462
ReadBody(r) ==
    /\ frame[r].pc = "await_body"
    /\ Runs(r)
    /\ loop' = r
    /\ \E body \in Bodies :
        IF body = <<>>
        THEN frame' = [frame EXCEPT ![r].pc = "ret"]
        ELSE LET e == body[1]
             IN  IF e.replyToken = "" \/ e.text = ""
                 THEN frame' = [frame EXCEPT ![r].pc = "ret", ![r].evt = e]
                 ELSE frame' = [frame EXCEPT ![r].pc = "dedup", ![r].evt = e,
                                             ![r].key = dedup_key(e)]
    /\ UNCHANGED <<pvars, PROCESSED, now, ticks, cfg, obs, firstObs>>

\* lines 464-466
Dedup(r) ==
    /\ frame[r].pc = "dedup"
    /\ loop = r
    /\ LET k == frame[r].key
           d == is_duplicate(PROCESSED, k, now)
           ek == EventKey(frame[r].evt)
       IN  /\ PROCESSED' = d.P
           /\ frame' = [frame EXCEPT ![r].pc = AfterDedup(d.ret)]
           /\ obs' = [q \in Req |->
                  IF q = r
                  THEN [obs[r] EXCEPT
                          !.dup = IF d.ret THEN "dup" ELSE "first",
                          !.seenBefore = firstObs[ek] >= 0
                                            /\ now - firstObs[ek] <= DEDUP_TTL_SECONDS,
                          !.inserted = d.P # _cleanup_processed(PROCESSED, now),
                          !.overlap = @ /\ d.ret]
                  ELSE [obs[q] EXCEPT !.overlap = @ \/ frame[q].pc = "await_body"]]
           /\ firstObs' = IF d.ret THEN firstObs ELSE [firstObs EXCEPT ![ek] = now]
    /\ UNCHANGED <<pvars, now, ticks, loop, cfg>>

\* line 470 and line_reply
Reply(r) ==
    /\ frame[r].pc = "reply"
    /\ loop = r
    /\ IF ~cfg.line
       THEN /\ frame' = [frame EXCEPT ![r].pc = "gen"]
            /\ obs' = obs
       ELSE \E out \in LineOutcomes :
            /\ obs' = [obs EXCEPT ![r].reply = @ + 1, ![r].lost = @ \/ out = "neterr"]
            /\ frame' = IF out = "neterr"
                        THEN [frame EXCEPT ![r].pc = "raise",
                                           ![r].exc = Exc("ConnectionError", <<"connection failed">>)]
                        ELSE [frame EXCEPT ![r].pc = "gen"]
    /\ UNCHANGED <<pvars, PROCESSED, now, ticks, loop, cfg, firstObs>>

\* the record of a finished call_openai or run_sql_via_pa is dropped by the
\* step after it
CallGone(ob) == [ob EXCEPT !.http = 0, !.last = 0, !.oai = "none", !.paResp = NoResp]

\* call_openai, lines 239-240: frame and obs after entering it from stage st
call_openai_enter(r, who, ob) ==
    /\ obs' = [obs EXCEPT ![r] = [ob EXCEPT !.http = 0, !.last = 0, !.oai = "running"]]
    /\ frame' = IF ~cfg.openai
                THEN [frame EXCEPT ![r].pc = "except", ![r].caller = who,
                                   ![r].exc = Exc("RuntimeError", <<"OPENAI_API_KEY not set">>)]
                ELSE [frame EXCEPT ![r].pc = "oa_http", ![r].caller = who, ![r].attempt = 0]

\* line 473: generate_sql up to the first request of call_openai
Generate(r) ==
    /\ frame[r].pc = "gen"
    /\ loop = r
    /\ call_openai_enter(r, "gen",
                         [obs[r] EXCEPT !.gen = @ + 1, !.stages = Append(@, "generate")])
    /\ UNCHANGED <<pvars, PROCESSED, now, ticks, loop, cfg, firstObs>>

\* line 481: summarize_with_llm up to the first request of call_openai
Summarize(r) ==
    /\ frame[r].pc = "sum"
    /\ loop = r
    /\ call_openai_enter(r, "sum",
                         [CallGone(obs[r]) EXCEPT !.sum = @ + 1,
                                                  !.stages = Append(@, "summarize")])
    /\ UNCHANGED <<pvars, PROCESSED, now, ticks, loop, cfg, firstObs>>

\* a retry on every error status
Retryable_AnyError(c) == c >= 400

\* the condition of line 255
Retryable(c) == c = 429 \/ (500 <= c /\ c < 600)

\* lines 252-264: one pass of the retry loop up to the sleep
OaHttp(r) ==
    /\ frame[r].pc = "oa_http"
    /\ loop = r
    /\ \E resp \in OaiResponses :
        LET ob == [obs[r] EXCEPT !.http = @ + 1, !.last = resp.status]
            fail(t, m, tag) ==
                /\ frame' = [frame EXCEPT ![r].pc = "except", ![r].attempt = 0,
                                          ![r].exc = Exc(t, m)]
                /\ obs' = [obs EXCEPT ![r] = [ob EXCEPT !.oai = tag]]
        IN  IF IsNetErr(resp) THEN fail("ConnectionError", <<"connection failed">>, "neterr")
            ELSE IF Retryable(resp.status)
            THEN /\ frame' = [frame EXCEPT ![r].pc = "oa_sleep"]
                 /\ obs' = [obs EXCEPT ![r] = ob]
            ELSE IF resp.status >= 400
            THEN fail("RuntimeError", <<"OpenAI error", ToString(resp.status), resp.body>>, "fatal")
            ELSE IF resp.body = "no choices" THEN fail("KeyError", <<"choices">>, "malformed")
            ELSE /\ obs' = [obs EXCEPT ![r] = [ob EXCEPT !.oai = "returned"]]
                 /\ IF frame[r].caller = "gen"
                    THEN \E g \in GenTexts :
                            frame' = [frame EXCEPT ![r].pc = "validate", ![r].attempt = 0,
                                                   ![r].sql = generate_sql_post(g)]
                    ELSE frame' = [frame EXCEPT ![r].pc = "push", ![r].attempt = 0,
                                                ![r].answer = "answer"]
    /\ UNCHANGED <<pvars, PROCESSED, now, ticks, loop, cfg, firstObs>>

\* lines 256-259 and 266: time.sleep(wait), then the next pass or the end of
\* the loop
OaSleep(r) ==
    /\ frame[r].pc = "oa_sleep"
    /\ loop = r
    /\ IF frame[r].attempt + 1 < MaxAttempts
       THEN /\ frame' = [frame EXCEPT ![r].pc = "oa_http", ![r].attempt = @ + 1]
            /\ obs' = [obs EXCEPT ![r].last = 0]
       ELSE /\ frame' = [frame EXCEPT ![r].pc = "except", ![r].attempt = 0,
                             ![r].exc = Exc("RuntimeError",
                                 <<"OpenAI rate limited (429). Please try again later.">>)]
            /\ obs' = [obs EXCEPT ![r].oai = "ratelimited"]
    /\ UNCHANGED <<pvars, PROCESSED, now, ticks, loop, cfg, firstObs>>

\* line 474
Validate(r) ==
    /\ frame[r].pc = "validate"
    /\ loop = r
    /\ LET res == validate_sql(frame[r].sql)
       IN  /\ obs' = [obs EXCEPT ![r] = [CallGone(@) EXCEPT
                                          !.vres = res, !.stages = Append(@, "validate")]]
           /\ frame' = [frame EXCEPT
                  ![r].pc = AfterValidate(res),
                  ![r].sql = IF res.ok THEN res.val ELSE @,
                  ![r].exc = IF res.ok THEN @ ELSE Exc("ValueError", <<res.err>>)]
    /\ UNCHANGED <<pvars, PROCESSED, now, ticks, loop, cfg, firstObs>>

\* line 475 and run_sql_via_pa
Execute(r) ==
    /\ frame[r].pc = "exec"
    /\ loop = r
    /\ LET ob == [obs[r] EXCEPT !.stages = Append(@, "execute")]
       IN  IF ~cfg.pa
           THEN /\ obs' = [obs EXCEPT ![r] = ob]
                /\ frame' = [frame EXCEPT ![r].pc = "except",
                       ![r].exc = Exc("RuntimeError", <<"PA_SQL_RUNNER_URL not set">>)]
           ELSE \E resp \in PaResponses :
                /\ obs' = [obs EXCEPT ![r] = [ob EXCEPT !.exec = @ + 1, !.execArg = frame[r].sql,
                                                        !.paResp = resp]]
                /\ frame' =
                     IF IsNetErr(resp)
                     THEN [frame EXCEPT ![r].pc = "except",
                              ![r].exc = Exc("ConnectionError", <<"connection failed">>)]
                     ELSE IF resp.status >= 400
                     THEN [frame EXCEPT ![r].pc = "except",
                              ![r].exc = Exc("RuntimeError",
                                  <<"PA runner error", ToString(resp.status), resp.body>>)]
                     ELSE IF resp.body = "notjson"
                     THEN [frame EXCEPT ![r].pc = "except",
                              ![r].exc = Exc("JSONDecodeError", <<"Expecting value">>)]
                     ELSE [frame EXCEPT ![r].pc = "sum",
                              ![r].rows = IF resp.body = "norows" THEN "rows0" ELSE resp.body]
    /\ UNCHANGED <<pvars, PROCESSED, now, ticks, loop, cfg, firstObs>>

\* line_push: frame and obs after pushing a message of the given kind; a
\* network error goes to onErr
line_push(r, kind, onErr) ==
    IF ~cfg.line \/ frame[r].evt.userId = ""
    THEN /\ frame' = [frame EXCEPT ![r].pc = "ret", ![r].exc = NoExc]
         /\ obs' = [obs EXCEPT ![r] = CallGone(@)]
    ELSE \E out \in LineOutcomes :
         /\ obs' = [obs EXCEPT ![r] = [CallGone(@) EXCEPT !.push = Append(@, kind),
                                                           !.lost = @ \/ out = "neterr"]]
         /\ frame' = IF out = "neterr"
                     THEN [frame EXCEPT ![r].pc = onErr,
                              ![r].exc = Exc("ConnectionError", <<"connection failed">>)]
                     ELSE [frame EXCEPT ![r].pc = "ret", ![r].exc = NoExc]

\* line 485
Push(r) ==
    /\ frame[r].pc = "push"
    /\ loop = r
    /\ line_push(r, "answer", "except")
    /\ UNCHANGED <<pvars, PROCESSED, now, ticks, loop, cfg, firstObs>>

\* lines 487-492
Except(r) ==
    /\ frame[r].pc = "except"
    /\ loop = r
    /\ line_push(r, IF IsRateLimitedMsg(frame[r].exc.msg) THEN "ratelimit" ELSE "failed", "raise")
    /\ UNCHANGED <<pvars, PROCESSED, now, ticks, loop, cfg, firstObs>>

\* return {"ok": True}: the locals of the call are gone
Return(r) ==
    /\ frame[r].pc = "ret"
    /\ loop = r
    /\ loop' = 0
    /\ frame' = [frame EXCEPT ![r] = Frame0]
    /\ obs' = [obs EXCEPT ![r] = Obs0]
    /\ UNCHANGED <<pvars, PROCESSED, now, ticks, cfg, firstObs>>

\* an exception leaves line_webhook
Propagate(r) ==
    /\ frame[r].pc = "raise"
    /\ loop = r
    /\ loop' = 0
    /\ frame' = [frame EXCEPT ![r] = Frame0]
    /\ obs' = [obs EXCEPT ![r] = Obs0]
    /\ UNCHANGED <<pvars, PROCESSED, now, ticks, cfg, firstObs>>

\* time.time() advances
Tick ==
    /\ ticks < MaxTicks
    /\ \E d \in TickSteps : now' = now + d
    /\ ticks' = ticks + 1
    /\ firstObs' = [k \in Keys |->
                       IF now' - firstObs[k] > DEDUP_TTL_SECONDS THEN -1 ELSE firstObs[k]]
    /\ UNCHANGED <<pvars, PROCESSED, loop, cfg, frame, obs>>

Init == cfg \in Configs /\ WebIdle /\ ValidateIdle /\ DedupIdle /\ PureIdle

Handler(r) ==
    \/ Start(r) \/ Yield(r) \/ ReadBody(r) \/ Dedup(r) \/ Reply(r)
    \/ Generate(r) \/ OaHttp(r) \/ OaSleep(r) \/ Validate(r) \/ Execute(r)
    \/ Summarize(r) \/ Push(r) \/ Except(r) \/ Return(r) \/ Propagate(r)

Next == Tick \/ \E r \in Req : Send(r) \/ Handler(r)

Spec == Init /\ [][Next]_vars

\* ------------------------------------------------------------------------
\* Properties of validate_sql
\* ------------------------------------------------------------------------
Called == vout # NotCalled

\* a mutating keyword, in any letter case, standing as a whole word of q
HasMutatingWord(q) ==
    \E i \in 1..Len(q) :
        /\ q[i] \in BannedWords \cup {"DROP", "Merge"}
        /\ (i > 1 => q[i - 1] \in {" ", ";", "*"})
        /\ (i < Len(q) => q[i + 1] \in {" ", ";", "*"})

\* the positions of the names that follow a FROM keyword and whitespace
SourcePositions(q) ==
    {j \in 1..Len(q) :
        \E i \in 1..(j - 2) :
            /\ q[i] \in {"from", "FROM"}
            /\ (i = 1 \/ q[i - 1] \in {" ", ";", "*"})
            /\ \A k \in (i + 1)..(j - 1) : q[k] = " "
            /\ q[j] \notin {" ", ";", "*"}}

\* the name at j is exactly an allow-listed table
AllowListed(q, j) ==
    /\ q[j] \in {"dbo.cqcr310", "DBO.CQCR310"}
    /\ (j < Len(q) => q[j + 1] \in {" ", ";", "*"})

RefersOutsideAllowList(q) == \E j \in SourcePositions(q) : ~AllowListed(q, j)

RefersToAllowList(q) == \E j \in SourcePositions(q) : AllowListed(q, j)

\* q with surrounding whitespace and one trailing statement terminator removed
TrimTrailing(q) ==
    LET t == Strip(q, {" "})
    IN  IF t # <<>> /\ t[Len(t)] = ";" THEN SubSeq(t, 1, Len(t) - 1) ELSE t

BeginsReadOnly(q) == q # <<>> /\ q[1] \in {"select", "Select"}

\* C1: a query that begins with the read-only keyword, has no mutating
\* keyword and references, in some source clause, a name outside the
\* allow-list fails with the source violation; no returned query references
\* a source outside the allow-list.
C1_OnlyAllowListedSources ==
    Called =>
        /\ (/\ BeginsReadOnly(TrimTrailing(vsql))
            /\ ~HasMutatingWord(vsql)
            /\ RefersOutsideAllowList(vsql)) => vout = Raise("from_not_allowed")
        /\ vout.ok => ~RefersOutsideAllowList(vout.val)

\* C2 (as stated): every query containing a mutating keyword as a whole
\* word fails with the forbidden-keyword violation.
C2_BannedAlwaysForbiddenKeyword ==
    (Called /\ HasMutatingWord(vsql)) => vout = Raise("banned_keyword")

\* C2 (amended): every query containing a mutating keyword as a whole word,
\* in any letter case, is rejected even when it references an allow-listed
\* source: with the forbidden-keyword violation when the query, stripped of
\* surrounding whitespace and statement terminators, begins with the
\* read-only keyword, and with the statement-kind violation otherwise.
C2_BannedRejected ==
    (Called /\ HasMutatingWord(vsql)) =>
        vout = IF BeginsReadOnly(Strip(Strip(vsql, {" "}), {";"}))
               THEN Raise("banned_keyword")
               ELSE Raise("only_select")

C2_Witness ==
    /\ Called
    /\ HasMutatingWord(vsql)
    /\ RefersToAllowList(vsql)
    /\ ~RefersOutsideAllowList(vsql)
    /\ "DROP" \in {vsql[i] : i \in 1..Len(vsql)}
    /\ vout = Raise("banned_keyword")

\* C3: the checks run in the order statement-kind, forbidden-keyword,
\* source-allow-list and the first failing one decides the violation; a
\* query that, after trimming whitespace and the trailing statement
\* terminator, does not begin with the read-only keyword fails with the
\* statement-kind violation; a query is returned only when all three pass.
C3_FirstFailingCheckDecides ==
    Called =>
        LET t == TrimTrailing(vsql)
        IN  IF ~BeginsReadOnly(t) THEN vout = Raise("only_select")
            ELSE IF HasMutatingWord(t) THEN vout = Raise("banned_keyword")
            ELSE IF ~RefersToAllowList(t) THEN vout = Raise("from_not_allowed")
            ELSE vout.ok

\* ------------------------------------------------------------------------
\* Properties of is_duplicate
\* ------------------------------------------------------------------------
\* C7: is_duplicate(k) returns false and records (k, now) when k has no
\* entry or its entry is older than DEDUP_TTL_SECONDS, and true otherwise;
\* a hit leaves the stored timestamp alone, so the verdict is true exactly
\* when k was judged first-seen at most DEDUP_TTL_SECONDS ago, whatever the
\* number of hits since.
C7_WindowFromFirstObservation ==
    [][dcall'.n # dcall.n =>
          LET k == dcall'.key
              seen == firstObs[k] >= 0 /\ now - firstObs[k] <= DEDUP_TTL_SECONDS
          IN  /\ dcall'.ret = seen
              /\ k \in DOMAIN PROCESSED'
              /\ seen => (/\ k \in DOMAIN PROCESSED
                          /\ PROCESSED[k] = firstObs[k]
                          /\ PROCESSED'[k] = PROCESSED[k])
              /\ ~seen => PROCESSED'[k] = now
      ]_vars

C7_Witness ==
    /\ dcall.n = 1
    /\ ~dcall.ret
    /\ dcall.hitsBefore = 2
    /\ now = DEDUP_TTL_SECONDS + 1
    /\ PROCESSED[dcall.key] = now

\* C19: after every is_duplicate(k) call made at time now, PROCESSED has an
\* entry for k and no entry older than DEDUP_TTL_SECONDS; the call keeps,
\* unchanged, every entry that is not older than that, so an entry whose age
\* is exactly the time-to-live stays and still makes the verdict true; and a
\* step that is not an is_duplicate call leaves PROCESSED as it is.
C19_PurgeOnlyAtCheck ==
    [][IF dcall'.n # dcall.n
       THEN LET k == dcall'.key
            IN  /\ k \in DOMAIN PROCESSED'
                /\ \A x \in DOMAIN PROCESSED' : now - PROCESSED'[x] <= DEDUP_TTL_SECONDS
                /\ \A x \in DOMAIN PROCESSED :
                      now - PROCESSED[x] <= DEDUP_TTL_SECONDS
                          => (x \in DOMAIN PROCESSED' /\ PROCESSED'[x] = PROCESSED[x])
                /\ (k \in DOMAIN PROCESSED /\ now - PROCESSED[k] = DEDUP_TTL_SECONDS)
                      => dcall'.ret
       ELSE PROCESSED' = PROCESSED
      ]_vars

C19_Witness ==
    /\ dcall.ret
    /\ dcall.key \in DOMAIN PROCESSED
    /\ now - PROCESSED[dcall.key] = DEDUP_TTL_SECONDS
    /\ \E x \in Keys : x # dcall.key /\ firstObs[x] >= 0 /\ x \notin DOMAIN PROCESSED

\* ------------------------------------------------------------------------
\* Properties of line_webhook
\* ------------------------------------------------------------------------
NoCalls(o) == o.reply = 0 /\ o.gen = 0 /\ o.exec = 0 /\ o.sum = 0 /\ o.push = <<>>

\* C4: the execution service is called only after validate_sql succeeded on
\* the request's query and only with the string validate_sql returned; when
\* validate_sql raises, the run makes no execution and no summarization call.
C4_ExecuteOnlyValidated ==
    \A r \in Req :
        LET o == obs[r]
        IN  /\ o.exec <= 1
            /\ o.exec > 0 => (o.vres.ok /\ o.execArg = o.vres.val)
            /\ (o.vres # NotCalled /\ ~o.vres.ok) => (o.exec = 0 /\ o.sum = 0)
            /\ frame[r].pc \in {"exec", "sum"} => (o.vres.ok /\ frame[r].sql = o.vres.val)

C4_Witness ==
    \E r \in Req :
        /\ obs[r].exec = 1
        /\ obs[r].vres.ok
        /\ obs[r].execArg = <<"select", " ", "from", " ", "dbo.cqcr310">>
        /\ frame[r].pc = "sum"

StageOrder == <<"generate", "normalize", "validate", "execute", "summarize">>

\* C5: the stages of a run are QueryGenerator, VocabularyNormalizer,
\* QueryValidator, QueryExecutor, ResultSummarizer in this order, each at
\* most once: the stages a run has gone through are an initial part of that
\* list, so a validated query has been through the normalizer.
C5_StagesInOrder ==
    \A r \in Req :
        LET st == obs[r].stages
        IN  Len(st) <= Len(StageOrder) /\ st = SubSeq(StageOrder, 1, Len(st))

\* C6: of the webhook calls that carry the same dedup key within the
\* time-to-live, however they interleave, at most one is judged first-seen:
\* a call is never judged first-seen when its key was judged first-seen at
\* most DEDUP_TTL_SECONDS earlier.
C6_OneFirstSeenPerKey ==
    /\ \A r \in Req : obs[r].dup = "first" => ~obs[r].seenBefore
    /\ \A r, q \in Req :
          (r # q /\ obs[r].dup = "first" /\ obs[q].dup = "first")
              => EventKey(frame[r].evt) # EventKey(frame[q].evt)

C6_Witness ==
    \E r \in Req :
        /\ obs[r].overlap
        /\ obs[r].dup = "dup"
        /\ obs[r].seenBefore
        /\ frame[r].pc = "ret"

\* C8: an event without reply token or without text, and an event whose
\* dedup key (message id, else reply token ":" timestamp) was first seen
\* within the time-to-live, cause no reply, generator, executor, summarizer
\* or push call; the former also creates no dedup entry.
C8_DiscardedEventsDoNothing ==
    \A r \in Req :
        LET e == frame[r].evt
            o == obs[r]
        IN  /\ (frame[r].pc \notin {"absent", "pending", "await_body"}
                  /\ (e.replyToken = "" \/ e.text = ""))
                 => (NoCalls(o) /\ ~o.inserted /\ o.dup = "unknown")
            /\ o.seenBefore => (NoCalls(o) /\ frame[r].pc = "ret")

C8_Witness ==
    \E r \in Req :
        /\ frame[r].pc = "ret"
        /\ frame[r].evt.replyToken = "tB"
        /\ obs[r].seenBefore
        /\ NoCalls(obs[r])
        /\ now = DEDUP_TTL_SECONDS

\* C9: while a request waits in the backoff delay of call_openai, every
\* other request that has arrived can take its next step.
C9_BackoffSuspendsOnlyItself ==
    \A r, q \in Req :
        (r # q /\ frame[r].pc = "oa_sleep" /\ frame[q].pc \in {"pending", "await_body"})
            => ENABLED Handler(q)

RetryableStatus(c) == c = 429 \/ c \in 500..599

\* C10: call_openai makes at most 5 requests; it makes a further request
\* only after a 429 or 5xx response, returns on the first success response,
\* fails at once on another 4xx response or a network error, and fails as
\* rate limited when all 5 requests got retryable responses.
C10_BoundedRetries ==
    [][\A r \in Req :
          LET o == obs'[r]
          IN  /\ o.http <= 5
              /\ o.http > obs[r].http => (o.http = obs[r].http + 1 /\ frame[r].pc = "oa_http")
              /\ (frame'[r].pc = "oa_http" /\ frame[r].pc # "oa_http")
                    => \/ o.http = 0
                       \/ (frame[r].pc = "oa_sleep" /\ RetryableStatus(obs[r].last) /\ o.http < 5)
              /\ frame'[r].pc = "oa_sleep" => RetryableStatus(o.last)
              /\ o.oai = "returned" => (o.last \in 200..399 /\ frame'[r].pc \in {"validate", "push"})
              /\ o.oai = "fatal" => (o.last \in 400..499 /\ o.last # 429 /\ frame'[r].pc = "except")
              /\ o.oai = "neterr" => (o.last = 0 /\ frame'[r].pc = "except")
              /\ o.oai = "ratelimited"
                    => (o.http = 5 /\ RetryableStatus(o.last) /\ frame'[r].pc = "except")
              /\ (frame[r].pc = "oa_http" /\ frame'[r].pc = "except" /\ o.http > 0)
                    => ~RetryableStatus(o.last)
      ]_vars

C10_Witness ==
    \E r \in Req :
        /\ obs[r].oai = "ratelimited"
        /\ obs[r].http = 5
        /\ frame[r].pc = "except"

\* ------------------------------------------------------------------------
\* Properties of the failure handling of line_webhook
\* ------------------------------------------------------------------------
Last(s) == s[Len(s)]

\* C11: the message pushed by the except clause is the "rate limited, retry
\* later" one exactly when the failure is the exhausted retry budget of
\* call_openai; missing credentials, a fatal 4xx, a validator rejection and
\* every failure of the execution service, whatever its status code, get the
\* generic "query failed" message.
C11_RateLimitReplyIffRateLimited ==
    [][\A r \in Req :
          (frame[r].pc = "except" /\ Len(obs'[r].push) > Len(obs[r].push))
              => (Last(obs'[r].push) = "ratelimit" <=> obs[r].oai = "ratelimited")
      ]_vars

\* C12: whatever the reasoning service, the validator, the execution service
\* and the delivery calls do, no exception leaves line_webhook, a failed
\* delivery call is not handled as a failure of the pipeline, and a run makes
\* at most one push.
C12_NothingPropagates ==
    \A r \in Req :
        /\ frame[r].pc # "raise"
        /\ ~(frame[r].pc = "except" /\ obs[r].lost)
        /\ Len(obs[r].push) <= 1

\* the execution service was unreachable, answered with a non-success status
\* or with a body that is not a JSON object carrying rows
FailedExecution(resp) ==
    \/ IsNetErr(resp)
    \/ resp.status \notin 200..299
    \/ resp.body \in {"notjson", "norows"}

\* C13: when the execution service is unreachable, answers with a
\* non-success status or with a malformed body (a body without rows field
\* included), run_sql_via_pa raises and the run goes to the failure reply;
\* it never goes on to the summarizer with an empty row sequence.
C13_FailedExecutionSurfaces ==
    \A r \in Req :
        (obs[r].paResp # NoResp /\ FailedExecution(obs[r].paResp))
            => (frame[r].pc = "except" /\ frame[r].rows = "none")

\* the run has passed the acknowledgment reply of line 470
PastReply(r) == frame[r].pc \notin {"absent", "pending", "await_body", "dedup", "reply"}

AckBeforeGenerator(r) ==
    LET o == obs[r]
    IN  /\ o.reply <= 1
        /\ frame[r].pc = "reply" => (o.reply = 0 /\ o.gen = 0)
        /\ PastReply(r) => o.reply = 1
        /\ o.gen > 0 => o.reply = 1

OnePushAfterLastStage(r) ==
    LET o == obs[r]
    IN  ~o.lost =>
            /\ Len(o.push) <= 1
            /\ o.push # <<>> => frame[r].pc = "ret"
            /\ frame[r].pc = "ret" =>
                  /\ Len(o.push) = 1
                  /\ o.push[1] = "answer" <=> frame[r].answer # "none"
                  /\ o.push[1] \in {"failed", "ratelimit"} <=> frame[r].answer = "none"

\* C18 (as stated): every run of a non-duplicate event with reply token and
\* text sends exactly one acknowledgment reply, before the generator, and,
\* when no delivery call fails, exactly one push after its last stage: the
\* answer or one failure message.
C18_AckThenOnePush ==
    \A r \in Req :
        obs[r].dup = "first" => (AckBeforeGenerator(r) /\ OnePushAfterLastStage(r))

\* C18 (amended): the same, for a service whose LINE channel access token is
\* set; the push is sent when the event carries a source user id, and no push
\* is sent when it carries none.
C18_AckThenOnePushWhenAddressable ==
    \A r \in Req :
        (obs[r].dup = "first" /\ cfg.line) =>
            /\ AckBeforeGenerator(r)
            /\ IF frame[r].evt.userId # ""
               THEN OnePushAfterLastStage(r)
               ELSE obs[r].push = <<>>

C18_Witness ==
    \E r \in Req :
        /\ obs[r].dup = "first"
        /\ cfg.line
        /\ frame[r].evt.userId = "u1"
        /\ frame[r].pc = "ret"
        /\ obs[r].reply = 1
        /\ obs[r].push = <<"failed">>
        /\ obs[r].stages = <<"generate", "validate", "execute">>
        /\ ~obs[r].lost

\* ------------------------------------------------------------------------
\* Properties of the plant normalization
\* ------------------------------------------------------------------------
\* C14: with plant = normalize_plant_from_text(text), None included,
\* enforce_plant_in_sql applied to its own result gives that result again,
\* for queries with a Plant = 'v' predicate, with a Plant IN (...) predicate
\* and with no site predicate.
C14_EnforceIdempotent == Len(plOut) = 2 => plOut[2] = plOut[1]

\* a string literal without its N prefix and its quotes
Unquote(p) ==
    LET a == Strip(p, WS)
        b == IF Len(a) > 1 /\ a[1] = "N" /\ a[2] \in Quotes THEN Tail(a) ELSE a
    IN  Strip(b, Quotes)

\* the positions of the Plant = ... and of the Plant IN (...) predicates of q
EqPreds(q) ==
    {i \in 1..Len(q) :
        /\ IsPlantCol(q, i)
        /\ SkipSpaces(q, i + 1) <= Len(q)
        /\ q[SkipSpaces(q, i + 1)] = "="}

InPreds(q) ==
    {i \in 1..Len(q) :
        /\ IsPlantCol(q, i)
        /\ SkipSpaces(q, i + 1) <= Len(q)
        /\ q[SkipSpaces(q, i + 1)] \in {"IN", "in"}}

\* the literal compared with Plant by the predicate at i
EqLiteralAt(q, i) ==
    LET k == SkipSpaces(q, SkipSpaces(q, i + 1) + 1)
        o == IF k < Len(q) /\ q[k] = "N" THEN k + 1 ELSE k
        e == IF o <= Len(q) /\ q[o] \in Quotes THEN IndexOf(q, o + 1, Quotes) ELSE 0
    IN  IF e = 0 THEN <<>> ELSE Unquote(SubSeq(q, k, e))

\* the literals listed by the predicate at i
InLiteralsAt(q, i) ==
    LET k == SkipSpaces(q, SkipSpaces(q, i + 1) + 1)
        e == IF k <= Len(q) /\ q[k] = "(" THEN IndexOf(q, k + 1, {")"}) ELSE 0
        parts == IF e = 0 THEN <<>> ELSE Split(SubSeq(q, k + 1, e - 1))
    IN  {Unquote(parts[n]) : n \in 1..Len(parts)}

PlantLiterals(q) ==
    {EqLiteralAt(q, i) : i \in EqPreds(q)} \cup UNION {InLiteralsAt(q, i) : i \in InPreds(q)}

\* C15: when the question text contains a site alias, the normalized query
\* has a site predicate and every literal of every Plant = ... and
\* Plant IN (...) predicate of it is the canonical value of that site.
C15_SiteOverrides ==
    (plOut # <<>> /\ plSql # <<>> /\ Truthy(normalize_plant_from_text(plText)))
        => PlantLiterals(plOut[1]) = {normalize_plant_from_text(plText).cn}

\* ------------------------------------------------------------------------
\* Properties of the defect normalization
\* ------------------------------------------------------------------------
\* a occurs in t
Occurs(a, t) == \E i, j \in 1..Len(t) : i <= j /\ SubSeq(t, i, j) = a

\* the canonical values of the individual aliases that occur in t
IndividualValues(t) ==
    {c \in {YanTui, TeCai, YunShou} :
        \/ c = YanTui /\ (Occurs(YanTui, t) \/ Occurs(PanTui, t))
        \/ c = TeCai /\ Occurs(TeCai, t)
        \/ c = YunShou /\ (\/ Occurs(YunShou, t)
                           \/ Occurs(<<"o", "k">>, t)
                           \/ Occurs(<<"a", "c", "c", "e", "p", "t">>, t))}

\* C16: a text that contains, in any letter case, one of the group aliases
\* of the broad defect term gives the whole group (rejected and special
\* acceptance) and nothing else, whatever individual aliases it contains; a
\* text without group alias gives exactly the canonical values of the
\* individual aliases it contains, or None when it contains none.
C16_GroupBeforeIndividual ==
    defOut # DefectNotCalled =>
        LET t == LowerStr(defText)
        IN  IF Occurs(BuLiang, t) \/ Occurs(<<"n", "g">>, t) \/ Occurs(BuLiangPi, t)
            THEN defOut = DefectList({YanTui, TeCai})
            ELSE IF IndividualValues(t) = {} THEN defOut = DefectNone
            ELSE defOut = DefectList(IndividualValues(t))

C16_Witness ==
    /\ defText = <<"O", "K", "N", "g">>
    /\ defOut = DefectList({YanTui, TeCai})

\* ------------------------------------------------------------------------
\* Properties of summarize_locally
\* ------------------------------------------------------------------------
NoRateColumn(r) == ~r.ng_rate.present /\ ~r.NG_Rate.present /\ ~r.ngRate.present

Listed(rows) == IF Len(rows) < 10 THEN Len(rows) ELSE 10

\* C17: a row without any of the rate columns is rendered without
\* percentage, in its list line and, for the first row, in the headline;
\* no rows give exactly the fixed no-data message, not an empty answer.
C17_AbsentRateUnavailable ==
    sumOut # SummaryNotCalled =>
        /\ sumOut # <<>>
        /\ sumRows = <<>> => sumOut = NoDataMessage
        /\ sumRows # <<>> =>
              /\ Len(sumOut) = 2 + Listed(sumRows)
              /\ NoRateColumn(sumRows[1]) => (sumOut[1].kind = "top_row" /\ ~sumOut[1].pct.shown)
              /\ \A i \in 1..Listed(sumRows) :
                    NoRateColumn(sumRows[i]) => ~sumOut[2 + i].pct.shown

C17_Witness ==
    /\ Len(sumRows) = TopN + 1
    /\ NoRateColumn(sumRows[1])
    /\ Len(sumOut) = TopN + 2
    /\ sumOut[1].kind = "top_row"
    /\ ~sumOut[3].pct.shown
    /\ sumOut[4].pct = [shown |-> TRUE, whole |-> 2, frac |-> 50]

\* the line shows the value of a rate column of the row as a percentage
RateShown(r, line) ==
    /\ line.pct.shown
    /\ \E c \in {r.ng_rate, r.NG_Rate, r.ngRate} :
          c.present /\ line.pct = [shown |-> TRUE, whole |-> c.num \div 100, frac |-> c.num % 100]

\* C20: a row with a numeric rate column is rendered with that rate as a
\* percentage, the rate 0 as 0.00%, in the headline for the first row and
\* in the list line of each of the up to 10 listed rows.
C20_PresentRateRendered ==
    (sumOut # SummaryNotCalled /\ sumRows # <<>>) =>
        /\ ~NoRateColumn(sumRows[1]) => RateShown(sumRows[1], sumOut[1])
        /\ \A i \in 1..Listed(sumRows) :
              ~NoRateColumn(sumRows[i]) => RateShown(sumRows[i], sumOut[2 + i])

====
